---------------------------- MODULE Spec2Model ----------------------------
(***************************************************************************)
(* Crop & Soil Analytics dashboard (CropDashboard React component).        *)
(*                                                                         *)
(* The repository holds two copies of the component:                       *)
(*   src/unnamed/part_000   (the copy with the "FIX" comments)              *)
(*   src/src/App.jsx        (the copy without them)                         *)
(* Both are modelled.  The variable build says which copy is running; the  *)
(* definitions named like the source model part_000 and the definitions    *)
(* with the suffix _App model App.jsx where the two copies differ.          *)
(*                                                                         *)
(* Numbers are fixed-point integers in hundredths (6.0 is 600), so that    *)
(* toFixed is a real conversion.  An optional JS value is a sequence:      *)
(* <<>> is undefined, <<v>> is the value v.                                *)
(***************************************************************************)
EXTENDS Integers, Sequences, FiniteSets, TLC

VARIABLES
    build,            \* which copy of the component is running
    map,              \* map.current exists
    popup,            \* popup.current: <<>> or <<selection>>
    loading,          \* useState loading
    showAnalytics,    \* useState showAnalytics (drawer open)
    fieldData,        \* useState fieldData: <<>> (null) or <<result>>
    alerts,           \* number of alert("Analysis failed.") calls so far
    analysisInFlight, \* analysis fetches awaiting their response, each with
                      \* its selection and (history) fieldData at its start
    nextAnalysis,     \* id of the next analysis fetch
    publishedBy,      \* history: id of the fetch whose result is in fieldData
    okIds,            \* history: ids of the fetches that published a result
    address,          \* useState address
    suggestions,      \* useState suggestions
    showSuggestions,  \* useState showSuggestions
    isSearching,      \* useState isSearching
    searchTimeout,    \* searchTimeout.current: 0 (null) or a timer id
    timers,           \* pending setTimeout callbacks
    nextTimer,        \* id of the next timer
    geoInFlight,      \* geocoding fetches awaiting their response
    suggestionsBy,    \* history: id of the lookup that last set suggestions
    lastKey,          \* history: "none", "short" or "long" (last keystroke)
    burst,            \* history: values typed since the timer was last idle
    burstIssued,      \* history: queries issued for the current burst
    lastOp,           \* history: the operation that produced this state
    requested,        \* history: the selections analysed, in request order
    lastRes,          \* history: the result the last geocoding fetch produced
    mapLoaded,        \* the map's load handler has run (click handler registered)
    marker,           \* marker.current: <<>> or <<[lat, lon]>>
    mapCenter,        \* where the map is centred: <<>> (initial view) or <<[lat, lon]>>
    publishedData,    \* history: the response body fieldData was built from
    lastBody,         \* history: the body of the last analysis response,
                      \* <<>> when that response was a failure
    lastSug,          \* history: the suggestion selected last
    selectMark,       \* history: nextTimer at the last selection, 0 before it
    mounted,          \* isMounted of the effect that ran last (the component
                      \* is mounted and mapContainer.current is set)
    effectId,         \* how many times the mount effect has run
    awaiting,         \* the effects whose initMap awaits loadMapResources()
    mapInitialized,   \* mapInitialized.current
    liveMaps,         \* map instances created and not removed
    urlAddress,       \* the Address query parameter: <<>> or <<text>>
    autoInFlight,     \* auto-navigate lookups awaiting their response
    autoIssued,       \* history: auto-navigate lookups issued so far
    lastAuto,         \* history: what the last auto-navigate lookup produced
    markersOnMap,     \* markers attached to the live map
    popupsOnMap,      \* popups attached to the live map
    pureIn,           \* input of the pure-function specifications
    pureOut           \* output of the pure-function specifications

\* the mount effect and the map instance
lifeVars == << mounted, effectId, awaiting, mapInitialized, liveMaps >>

\* the auto-navigate lookup
autoVars == << urlAddress, autoInFlight, autoIssued, lastAuto >>

\* what is attached to the map
attachVars == << markersOnMap, popupsOnMap >>

vars == << build, map, popup, loading, showAnalytics, fieldData, alerts,
           analysisInFlight, nextAnalysis, publishedBy, okIds, address,
           suggestions, showSuggestions, isSearching, searchTimeout, timers,
           nextTimer, geoInFlight, suggestionsBy, lastKey, burst,
           burstIssued, lastOp, requested, lastRes, mapLoaded, marker,
           mapCenter, publishedData, lastBody, lastSug, selectMark, lifeVars,
           autoVars, attachVars, pureIn, pureOut >>

uiVars == << build, map, popup, loading, showAnalytics, fieldData, alerts,
             analysisInFlight, nextAnalysis, publishedBy, okIds, address,
             suggestions, showSuggestions, isSearching, searchTimeout,
             timers, nextTimer, geoInFlight, suggestionsBy, lastKey, burst,
             burstIssued, lastOp, requested, lastRes, mapLoaded, marker,
             mapCenter, publishedData, lastBody, lastSug, selectMark, lifeVars,
             autoVars, attachVars >>

-----------------------------------------------------------------------------
(* Bounds *)

MaxAnalyses == 2      \* analysis requests started in one behaviour
MaxKeys     == 2      \* keystrokes that start a timer in one behaviour
MaxAcreLen  == 3      \* characters of an acreage property
MaxMounts   == 2      \* runs of the mount effect in one behaviour

(* Program constants *)

Scale        == 100   \* fixed point: hundredths
CURRENT_YEAR == 2022
MIN_QUERY    == 3
TOP_N        == 5
GEO_LIMIT    == 8     \* limit=8 of the geocoding request

Builds == {"part_000", "App"}

-----------------------------------------------------------------------------
(* Optional values and JS coercions *)

None == << >>
Some(v) == << v >>
IsSome(x) == x # << >>

\* JS truthiness of an optional number: undefined and 0 are falsy
Truthy(x) == IsSome(x) /\ x[1] # 0

\* x || d
OrElse(x, d) == IF Truthy(x) THEN x[1] ELSE d

\* x < k, x > k, x >= k for an optional number: undefined converts to NaN
\* and every comparison with NaN is false
Lt(x, k) == IsSome(x) /\ x[1] < k
Gt(x, k) == IsSome(x) /\ x[1] > k
Ge(x, k) == IsSome(x) /\ x[1] >= k

Max(a, b) == IF a >= b THEN a ELSE b

RECURSIVE Pow10(_)
Pow10(n) == IF n = 0 THEN 1 ELSE 10 * Pow10(n - 1)

RECURSIVE Digits(_, _)
\* the n low decimal digits of v, most significant first
Digits(v, n) == IF n = 0 THEN << >>
                ELSE Append(Digits(v \div 10, n - 1), v % 10)

\* Number.prototype.toFixed(d) of the non-negative fixed-point number x,
\* d in 0..2: the decimal string as [int, frac] (round half up; the inputs
\* used below have no exact tie)
toFixed(x, d) ==
    LET drop == Pow10(2 - d)
        r    == (x + (drop \div 2)) \div drop
    IN  [int |-> r \div Pow10(d), frac |-> Digits(r % Pow10(d), d)]

-----------------------------------------------------------------------------
(* DATA HELPERS *)

\* a health issue / strength message: the text and, for the pH issues, the
\* pH as toFixed(1) prints it
Msg(text, num) == [text |-> text, num |-> num]

\* getTextureClass(sand, clay), part_000
getTextureClass(sand, clay) ==
    LET s == OrElse(sand, 0)
        c == OrElse(clay, 0)
    IN  IF s + c = 0 THEN "Unknown"
        ELSE IF c >= 40 * Scale THEN "Clay"
        ELSE IF s > 45 * Scale THEN "Sandy Loam"
        ELSE "Loam"

\* getTextureClass(sand, clay), App.jsx
getTextureClass_App(sand, clay) ==
    IF ~Truthy(sand) \/ ~Truthy(clay) THEN "Unknown"
    ELSE IF Ge(clay, 40 * Scale) THEN "Clay"
    ELSE IF Gt(sand, 45 * Scale) THEN "Sandy Loam"
    ELSE "Loam"

\* the three checks of getHealthScore on the numbers ph, soc, nitrogen
\* (optional: a comparison with undefined is false): the deduction, the
\* issues and the strengths of each, in the order of the code
phDeduct(ph)  == IF Lt(ph, 6 * Scale) \/ Gt(ph, (15 * Scale) \div 2) THEN 15 ELSE 0
phIssues(ph)  ==
    IF Lt(ph, 6 * Scale)
    THEN << [message |-> Msg("Acidic Soil (pH ", Some(toFixed(ph[1], 1))),
             severity |-> "medium"] >>
    ELSE IF Gt(ph, (15 * Scale) \div 2)
    THEN << [message |-> Msg("Alkaline Soil (pH ", Some(toFixed(ph[1], 1))),
             severity |-> "medium"] >>
    ELSE << >>
phStrengths(ph) ==
    IF Lt(ph, 6 * Scale) \/ Gt(ph, (15 * Scale) \div 2) THEN << >>
    ELSE << [message |-> Msg("pH is in optimal range", None)] >>

socDeduct(soc) == IF Lt(soc, 15 * Scale) THEN 20 ELSE 0
socIssues(soc) ==
    IF Lt(soc, 15 * Scale)
    THEN << [message |-> Msg("Low organic matter", None), severity |-> "high"] >>
    ELSE << >>
socStrengths(soc) ==
    IF Lt(soc, 15 * Scale) THEN << >>
    ELSE << [message |-> Msg("Good organic matter", None)] >>

nDeduct(n) == IF Lt(n, 2 * Scale) THEN 15 ELSE 0
nIssues(n) ==
    IF Lt(n, 2 * Scale)
    THEN << [message |-> Msg("Low Nitrogen", None), severity |-> "medium"] >>
    ELSE << >>

healthOf(ph, soc, n) ==
    [score     |-> Max(0, 100 - phDeduct(ph) - socDeduct(soc) - nDeduct(n)),
     issues    |-> phIssues(ph) \o socIssues(soc) \o nIssues(n),
     strengths |-> phStrengths(ph) \o socStrengths(soc)]

\* getHealthScore(soil), part_000: null for a missing soil, and the
\* defaults 6.5 / 20 / 2.5 in place of a falsy ph / soc / nitrogen
getHealthScore(soil) ==
    IF soil = None THEN None
    ELSE LET ph       == OrElse(soil[1].ph, (13 * Scale) \div 2)
             soc      == OrElse(soil[1].soc, 20 * Scale)
             nitrogen == OrElse(soil[1].nitrogen, (5 * Scale) \div 2)
         IN  Some(healthOf(Some(ph), Some(soc), Some(nitrogen)))

\* getHealthScore(soil), App.jsx: a zero-score object for a missing soil,
\* and the fields of soil as they are
getHealthScore_App(soil) ==
    IF soil = None
    THEN Some([score |-> 0, issues |-> << >>, strengths |-> << >>])
    ELSE Some(healthOf(soil[1].ph, soil[1].soc, soil[1].nitrogen))

\* the label under the score of the health card:
\* score > 75 ? 'Excellent' : score > 50 ? 'Fair' : 'Poor'
healthLabel(score) ==
    IF score > 75 THEN "Excellent" ELSE IF score > 50 THEN "Fair" ELSE "Poor"

nitrogenEntry(n) ==
    [nutrient |-> "Nitrogen (N)", priority |-> "HIGH", amount |-> "80-100 lbs/ac",
     fertilizer |-> "Urea (46-0-0)", current |-> toFixed(n, 2),
     target |-> "3.5", timing |-> "Split application at planting"]

phEntry(ph) ==
    [nutrient |-> "pH Adjustment", priority |-> "HIGH", amount |-> "2-3 tons/ac",
     fertilizer |-> "Ag Limestone", current |-> toFixed(ph, 1),
     target |-> "6.5", timing |-> "Fall application"]

\* the plan reads the fields of soil as they are, without the defaults the
\* assessment uses
getFertilizerPlan_RawValues(soil) ==
    IF soil = None THEN << >>
    ELSE (IF Lt(soil[1].nitrogen, 2 * Scale)
          THEN << nitrogenEntry(soil[1].nitrogen[1]) >> ELSE << >>)
         \o (IF Lt(soil[1].ph, 6 * Scale) /\ Gt(soil[1].ph, 0)
             THEN << phEntry(soil[1].ph[1]) >> ELSE << >>)

\* getFertilizerPlan(soil), part_000
getFertilizerPlan(soil) ==
    IF soil = None THEN << >>
    ELSE LET ph       == OrElse(soil[1].ph, (13 * Scale) \div 2)
             nitrogen == OrElse(soil[1].nitrogen, (5 * Scale) \div 2)
         IN  (IF nitrogen < 2 * Scale THEN << nitrogenEntry(nitrogen) >> ELSE << >>)
             \o (IF ph < 6 * Scale /\ ph > 0 THEN << phEntry(ph) >> ELSE << >>)

\* getFertilizerPlan(soil), App.jsx
getFertilizerPlan_App(soil) ==
    IF soil = None THEN << >>
    ELSE (IF Lt(soil[1].nitrogen, 2 * Scale)
          THEN << nitrogenEntry(soil[1].nitrogen[1]) >> ELSE << >>)
         \o (IF Lt(soil[1].ph, 6 * Scale)
             THEN << phEntry(soil[1].ph[1]) >> ELSE << >>)

Soil(ph, soc, nitrogen, sand, clay, silt) ==
    [ph |-> ph, soc |-> soc, nitrogen |-> nitrogen,
     sand |-> sand, clay |-> clay, silt |-> silt]

\* { ph: 6.5, soc: 20, nitrogen: 2.5, clay: 25, sand: 35 }
DefaultSoil ==
    Soil(Some((13 * Scale) \div 2), Some(20 * Scale), Some((5 * Scale) \div 2),
         Some(35 * Scale), Some(25 * Scale), None)

-----------------------------------------------------------------------------
(* Strings are sequences of one-character strings *)

\* the letters of the names and queries below; every other character is
\* its own lower case
Lower(c) == CASE c = "A" -> "a"
              [] c = "I" -> "i"
              [] c = "M" -> "m"
              [] c = "N" -> "n"
              [] c = "O" -> "o"
              [] c = "R" -> "r"
              [] c = "S" -> "s"
              [] OTHER   -> c

toLowerCase(s) == [i \in 1..Len(s) |-> Lower(s[i])]

startsWith(s, p) == Len(p) <= Len(s) /\ SubSeq(s, 1, Len(p)) = p

DigitVal(c) == CASE c = "0" -> 0 [] c = "1" -> 1 [] c = "2" -> 2 [] c = "3" -> 3
                 [] c = "4" -> 4 [] c = "5" -> 5 [] c = "6" -> 6 [] c = "7" -> 7
                 [] c = "8" -> 8 [] c = "9" -> 9 [] OTHER -> -1

RECURSIVE digitRun(_, _)
\* the number of consecutive digits of s from position i on
digitRun(s, i) ==
    IF i <= Len(s) /\ DigitVal(s[i]) >= 0 THEN 1 + digitRun(s, i + 1) ELSE 0

RECURSIVE digitsValue(_)
digitsValue(s) ==
    IF s = << >> THEN 0
    ELSE 10 * digitsValue(SubSeq(s, 1, Len(s) - 1)) + DigitVal(s[Len(s)])

\* parseFloat(s): the longest prefix of s that is a decimal numeral (sign,
\* digits, point, digits) as a fixed-point number, <<>> (NaN) when s starts
\* with no numeral.  The strings used below carry no white space, no
\* exponent and at most two fraction digits.
parseFloat(s) ==
    LET neg  == Len(s) >= 1 /\ s[1] = "-"
        a    == IF neg THEN 2 ELSE 1
        ni   == digitRun(s, a)
        dot  == a + ni <= Len(s) /\ s[a + ni] = "."
        nf   == IF dot THEN digitRun(s, a + ni + 1) ELSE 0
        ip   == digitsValue(SubSeq(s, a, a + ni - 1))
        fr   == SubSeq(s, a + ni + 1, a + ni + nf)
        hund == (IF nf >= 1 THEN 10 * DigitVal(fr[1]) ELSE 0)
                + (IF nf >= 2 THEN DigitVal(fr[2]) ELSE 0)
        mag  == ip * Scale + hund
    IN  IF ni = 0 /\ nf = 0 THEN None
        ELSE Some(IF neg THEN 0 - mag ELSE mag)

\* the whole display name is put into the search box
beforeComma_WholeName(s) == s

RECURSIVE beforeComma(_)
\* s.split(',')[0]
beforeComma(s) ==
    IF s = << >> \/ Head(s) = "," THEN << >>
    ELSE << Head(s) >> \o beforeComma(Tail(s))

-----------------------------------------------------------------------------
(* Search ranking: the body of the debounced callback of handleAddressChange *)

\* the prefix test without the two toLowerCase() calls
rankScore_CaseSensitive(item, val) ==
    IF startsWith(item.display_name[1], val) THEN 100 ELSE 0

\* the rankScore the map callback gives an item that has a display_name
rankScore(item, val) ==
    IF startsWith(toLowerCase(item.display_name[1]), toLowerCase(val))
    THEN 100 ELSE 0

\* data.map(item => ({ ...item, rankScore: score }))
withScores(data, val) ==
    [i \in 1..Len(data) |->
        [display_name |-> data[i].display_name, lat |-> data[i].lat,
         lon |-> data[i].lon, rankScore |-> rankScore(data[i], val)]]

\* the comparator (a, b) => b.rankScore - a.rankScore
compareRank(a, b) == b.rankScore - a.rankScore

RECURSIVE insertSorted(_, _)
\* x goes after every element that does not compare greater than it
insertSorted(s, x) ==
    IF s = << >> THEN << x >>
    ELSE IF compareRank(s[Len(s)], x) <= 0 THEN Append(s, x)
    ELSE Append(insertSorted(SubSeq(s, 1, Len(s) - 1), x), s[Len(s)])

RECURSIVE sortByRank(_)
\* Array.prototype.sort with compareRank: a stable sort
sortByRank(s) ==
    IF s = << >> THEN << >>
    ELSE insertSorted(sortByRank(SubSeq(s, 1, Len(s) - 1)), s[Len(s)])

\* .slice(0, 5)
slice5(s) == SubSeq(s, 1, IF Len(s) < TOP_N THEN Len(s) ELSE TOP_N)

\* item.display_name.toLowerCase() throws a TypeError on an item that has
\* no display_name
mapThrows(data) == \E i \in 1..Len(data) : data[i].display_name = None

\* the value of `ranked` for a parsed array whose items all have a name
rankedOf(data, val) == slice5(sortByRank(withScores(data, val)))

-----------------------------------------------------------------------------
(* The inputs of the interactive specification *)

\* CROP_LOOKUP, the entries for the codes used below
CROP_LOOKUP == [code \in {1, 5} |-> IF code = 1 THEN "Corn" ELSE "Soybeans"]

\* CROP_LOOKUP[props.CROP_TYPE] || "Unknown"
cropNameOf(code) == IF code \in DOMAIN CROP_LOOKUP THEN CROP_LOOKUP[code] ELSE "Unknown"

\* a feature of the crop layer: its properties
Feature(code, cnty, acres) ==
    [properties |-> [CROP_TYPE |-> code, CNTY |-> cnty, CSBACRES |-> acres]]

\* a click on the map: e.lngLat and the features of the crop layer at the
\* point (none, or the one that is used)
Click(lat, lon, features) == [lat |-> lat, lon |-> lon, features |-> features]

Clicks ==
    { Click(4012, -9850, << Feature(1, "Adams", Some(<<"1","2",".","5">>)) >>),
      Click(4155, -9320, << Feature(999, "Boone", None) >>),
      Click(3500, -9100, << >>) }

\* what the popup prints after "Acres:": a text, or a number as toFixed
\* prints it
Shown(text, num) == [text |-> text, num |-> num]

\* props.CSBACRES ? parseFloat(props.CSBACRES).toFixed(2) : "N/A"
\* (NaN.toFixed(2) is "NaN")
acresText(prop) ==
    IF prop = None \/ prop[1] = << >> THEN Shown("N/A", None)
    ELSE LET v == parseFloat(prop[1])
         IN  IF v = None THEN Shown("NaN", None)
             ELSE Shown("", Some(toFixed(v[1], 2)))

HistoryEntry(crop, code, acres) == [crop |-> crop, code |-> code, acres |-> acres]

\* a history object: a function from its years to its entries
EmptyHistory == [y \in {} |-> HistoryEntry("", 0, None)]
BackendHistory ==
    [y \in {2021, CURRENT_YEAR} |->
        IF y = 2021 THEN HistoryEntry("Wheat", 24, None)
        ELSE HistoryEntry("Rice", 3, None)]

\* the JSON body of a successful analysis response
AnalysisData(soil, history, recommendations) ==
    [soil |-> soil, history |-> history, recommendations |-> recommendations]

AcidSoil ==
    Soil(Some(552), Some(12 * Scale), Some(180), Some(30 * Scale),
         Some(20 * Scale), None)

\* no clay value
SandySoil ==
    Soil(Some(650), Some(20 * Scale), Some(250), Some(70 * Scale), None, None)

\* sand and clay above 100 together
HeavySoil ==
    Soil(Some(780), Some(20 * Scale), Some(250), Some(70 * Scale),
         Some(45 * Scale), None)

\* a silt value from the backend that is not 100 - sand - clay
SiltSoil ==
    Soil(Some(650), Some(20 * Scale), Some(250), Some(30 * Scale),
         Some(20 * Scale), Some(10 * Scale))

Recommendations == << [name |-> "Oats", score |-> 80] >>

\* every subset of soil, history and recommendations absent, each body
\* that has a soil with another one
AnalysisBodies ==
    { AnalysisData(None, history, recs) :
        history \in { None, Some(BackendHistory) },
        recs \in { None, Some(Recommendations) } }
    \cup { AnalysisData(Some(AcidSoil), Some(BackendHistory), Some(Recommendations)),
           AnalysisData(Some(SandySoil), Some(BackendHistory), None),
           AnalysisData(Some(HeavySoil), None, Some(Recommendations)),
           AnalysisData(Some(SiltSoil), None, None) }

\* the ways an analysis request fails: response.ok false, fetch rejects,
\* response.json() rejects
AnalysisFailures == {"status", "network", "json"}

\* the values typed into the search box
KeyValues == { <<"m">>, <<"m","a","i">>, <<"M","a","i","n">> }

Item(name, lat, lon) == [display_name |-> name, lat |-> lat, lon |-> lon]

\* the provider sends lat and lon as decimal strings
MainSt == Item(Some(<<"M","a","i","n",",","S">>), <<"4","0",".","5">>, <<"-","9","8">>)
OakRd  == Item(Some(<<"O","a","k",",","M">>), <<"4","1">>, <<"-","9","7",".","2","5">>)
NoName == Item(None, <<"3">>, <<"3">>)

\* what a geocoding fetch can produce: a rejected fetch, a body that does
\* not parse, a parsed body that is no array, a parsed array
GeoResults ==
    { [kind |-> "network", data |-> << >>],
      [kind |-> "badjson", data |-> << >>],
      [kind |-> "object",  data |-> << >>],
      [kind |-> "array",   data |-> << >>],
      [kind |-> "array",   data |-> << OakRd, MainSt >>],
      [kind |-> "array",   data |-> << MainSt, NoName >>] }

-----------------------------------------------------------------------------
(* fetchAnalysisFromAzure *)

\* the entry is set only when the backend sent none for the year
setYear_KeepsBackend(history, entry) ==
    [y \in (DOMAIN history) \cup {CURRENT_YEAR} |->
        IF y \in DOMAIN history THEN history[y] ELSE entry]

\* history[CURRENT_YEAR] = { crop, code, acres }
setYear(history, entry) ==
    [y \in (DOMAIN history) \cup {CURRENT_YEAR} |->
        IF y = CURRENT_YEAR THEN entry ELSE history[y]]

historyOf(data, sel) ==
    setYear(IF data.history = None THEN EmptyHistory ELSE data.history[1],
            HistoryEntry(sel.cropName, sel.props.CROP_TYPE, sel.props.CSBACRES))

\* soil.silt = Math.max(0, 100 - (soil.sand || 0) - (soil.clay || 0))
withSilt(soil) ==
    IF soil.silt = None
    THEN [soil EXCEPT !.silt =
            Some(Max(0, 100 * Scale - OrElse(soil.sand, 0) - OrElse(soil.clay, 0)))]
    ELSE soil

\* const soil = data.soil || {defaults}, then the silt completion
normalizedSoil(data) ==
    withSilt(IF data.soil = None THEN DefaultSoil ELSE data.soil[1])

\* the texture is taken from the soil of the body, not from the soil that
\* is published
resultOf_TextureOfBody(sel, data) ==
    LET soil == normalizedSoil(data)
    IN  [cropName        |-> sel.cropName,
         county          |-> sel.props.CNTY,
         acres           |-> sel.props.CSBACRES,
         history         |-> historyOf(data, sel),
         soil            |-> Some(soil),
         recommendations |-> IF data.recommendations = None THEN << >>
                             ELSE data.recommendations[1],
         texture         |-> IF data.soil = None THEN getTextureClass(None, None)
                             ELSE getTextureClass(soil.sand, soil.clay),
         healthData      |-> getHealthScore(Some(soil)),
         fertilizerPlan  |-> getFertilizerPlan(Some(soil)),
         location        |-> [lat |-> sel.lat, lon |-> sel.lon]]

\* the object handed to setFieldData, part_000
resultOf(sel, data) ==
    LET soil == normalizedSoil(data)
    IN  [cropName        |-> sel.cropName,
         county          |-> sel.props.CNTY,
         acres           |-> sel.props.CSBACRES,
         history         |-> historyOf(data, sel),
         soil            |-> Some(soil),
         recommendations |-> IF data.recommendations = None THEN << >>
                             ELSE data.recommendations[1],
         texture         |-> getTextureClass(soil.sand, soil.clay),
         healthData      |-> getHealthScore(Some(soil)),
         fertilizerPlan  |-> getFertilizerPlan(Some(soil)),
         location        |-> [lat |-> sel.lat, lon |-> sel.lon]]

\* the object handed to setFieldData, App.jsx
resultOf_App(sel, data) ==
    [cropName        |-> sel.cropName,
     county          |-> sel.props.CNTY,
     acres           |-> sel.props.CSBACRES,
     history         |-> historyOf(data, sel),
     soil            |-> data.soil,
     recommendations |-> IF data.recommendations = None THEN << >>
                         ELSE data.recommendations[1],
     texture         |-> IF data.soil = None THEN getTextureClass_App(None, None)
                         ELSE getTextureClass_App(data.soil[1].sand, data.soil[1].clay),
     healthData      |-> getHealthScore_App(data.soil),
     fertilizerPlan  |-> getFertilizerPlan_App(data.soil),
     location        |-> [lat |-> sel.lat, lon |-> sel.lon]]

-----------------------------------------------------------------------------
(* Initial state: the component as constructed (useState / useRef initial
   values) and mounted: the mount effect has called initMap, which awaits
   the map resources; no request issued *)

InitState ==
    /\ build \in Builds
    /\ map = FALSE
    /\ popup = None
    /\ loading = FALSE
    /\ showAnalytics = FALSE
    /\ fieldData = None
    /\ alerts = 0
    /\ analysisInFlight = {}
    /\ nextAnalysis = 1
    /\ publishedBy = 0
    /\ okIds = {}
    /\ address = << >>
    /\ suggestions = << >>
    /\ showSuggestions = FALSE
    /\ isSearching = FALSE
    /\ searchTimeout = 0
    /\ timers = {}
    /\ nextTimer = 1
    /\ geoInFlight = {}
    /\ suggestionsBy = 0
    /\ lastKey = "none"
    /\ burst = << >>
    /\ burstIssued = << >>
    /\ lastOp = "init"
    /\ requested = << >>
    /\ lastRes = None
    /\ mapLoaded = FALSE
    /\ marker = None
    /\ mapCenter = None
    /\ publishedData = None
    /\ lastBody = None
    /\ lastSug = None
    /\ selectMark = 0
    /\ mounted = TRUE
    /\ effectId = 1
    /\ awaiting = {1}
    /\ mapInitialized = FALSE
    /\ liveMaps = 0
    /\ autoInFlight = {}
    /\ autoIssued = 0
    /\ lastAuto = None
    /\ markersOnMap = 0
    /\ popupsOnMap = 0

\* the page opened without the Address parameter
InitUI ==
    /\ InitState
    /\ urlAddress = None

\* the Address parameter of the page: absent, or a text
UrlAddresses == { None, Some(<<"O","a","k">>) }

\* the page opened without the parameter, for the specifications that do
\* not follow the auto-navigate lookup
InitPlain ==
    /\ InitUI
    /\ pureIn = None
    /\ pureOut = None

Init ==
    /\ InitState
    /\ urlAddress \in UrlAddresses
    /\ pureIn = None
    /\ pureOut = None

-----------------------------------------------------------------------------
(* Map *)

\* if (marker.current) marker.current.remove() without the removal (and the
\* same for the popup)
removeOld_Omitted(n, ref) == n

\* if (marker.current) marker.current.remove(), and the same for
\* popup.current: n, the number of markers (popups) on the live map, after
\* it.  A reference left from a removed map is attached to nothing.
removeOld(n, ref) == IF ref # None /\ n > 0 THEN n - 1 ELSE n

\* the mount effect runs: isMounted = true and initMap() up to its
\* await loadMapResources()
mount ==
    /\ ~mounted
    /\ effectId < MaxMounts
    /\ mounted' = TRUE
    /\ effectId' = effectId + 1
    /\ awaiting' = IF mapInitialized THEN awaiting
                   ELSE awaiting \cup { effectId + 1 }
    /\ lastOp' = "mount"
    /\ UNCHANGED << build, map, mapLoaded, popup, loading, showAnalytics,
                    fieldData, alerts, analysisInFlight, nextAnalysis,
                    publishedBy, okIds, publishedData, address, suggestions,
                    showSuggestions, isSearching, searchTimeout, timers,
                    nextTimer, geoInFlight, suggestionsBy, lastKey, burst,
                    burstIssued, requested, lastRes, marker, mapCenter,
                    lastSug, selectMark, lastBody, mapInitialized, liveMaps,
                    autoVars, attachVars, pureIn, pureOut >>

\* the cleanup of the mount effect: isMounted = false, and the map, if
\* there is one, is removed with what is attached to it (marker.current
\* and popup.current keep their references)
unmount ==
    /\ mounted
    /\ mounted' = FALSE
    /\ IF map
       THEN /\ map' = FALSE
            /\ mapInitialized' = FALSE
            /\ liveMaps' = liveMaps - 1
            /\ mapLoaded' = FALSE
            /\ mapCenter' = None
            /\ markersOnMap' = 0
            /\ popupsOnMap' = 0
       ELSE UNCHANGED << map, mapInitialized, liveMaps, mapLoaded, mapCenter,
                         markersOnMap, popupsOnMap >>
    /\ lastOp' = "unmount"
    /\ UNCHANGED << build, popup, loading, showAnalytics, fieldData, alerts,
                    analysisInFlight, nextAnalysis, publishedBy, okIds,
                    publishedData, address, suggestions, showSuggestions,
                    isSearching, searchTimeout, timers, nextTimer,
                    geoInFlight, suggestionsBy, lastKey, burst, burstIssued,
                    requested, lastRes, marker, lastSug, selectMark, lastBody,
                    effectId, awaiting, autoVars, pureIn, pureOut >>

\* loadMapResources() rejects: initMap returns in its catch
resourcesFailed(e) ==
    /\ e \in awaiting
    /\ awaiting' = awaiting \ {e}
    /\ lastOp' = "resourcesFailed"
    /\ UNCHANGED << build, map, mapLoaded, popup, loading, showAnalytics,
                    fieldData, alerts, analysisInFlight, nextAnalysis,
                    publishedBy, okIds, publishedData, address, suggestions,
                    showSuggestions, isSearching, searchTimeout, timers,
                    nextTimer, geoInFlight, suggestionsBy, lastKey, burst,
                    burstIssued, requested, lastRes, marker, mapCenter,
                    lastSug, selectMark, lastBody, mounted, effectId,
                    mapInitialized, liveMaps, autoVars, attachVars, pureIn,
                    pureOut >>

\* initMap of effect e creates the map whether or not e is still mounted
initMap_IgnoresUnmount(e) ==
    /\ e \in awaiting
    /\ awaiting' = awaiting \ {e}
    /\ mapInitialized' = TRUE
    /\ map' = TRUE
    /\ liveMaps' = liveMaps + 1
    /\ lastOp' = "initMap"
    /\ UNCHANGED << build, loading, showAnalytics, fieldData, alerts,
                    analysisInFlight, nextAnalysis, publishedBy, okIds,
                    address, suggestions, showSuggestions, isSearching,
                    searchTimeout, timers, nextTimer, geoInFlight,
                    suggestionsBy, lastKey, burst, burstIssued, requested,
                    lastRes, pureIn, pureOut, marker, mapCenter,
                    publishedData, lastSug, selectMark, popup, mapLoaded,
                    lastBody, mounted, effectId, autoVars, attachVars >>

\* initMap of effect e after await loadMapResources(): it returns if the
\* effect was cleaned up meanwhile (!isMounted || !mapContainer.current),
\* and otherwise sets mapInitialized.current and creates map.current
initMap(e) ==
    /\ e \in awaiting
    /\ awaiting' = awaiting \ {e}
    /\ IF mounted /\ e = effectId
       THEN /\ mapInitialized' = TRUE
            /\ map' = TRUE
            /\ liveMaps' = liveMaps + 1
       ELSE UNCHANGED << mapInitialized, map, liveMaps >>
    /\ lastOp' = "initMap"
    /\ UNCHANGED << build, loading, showAnalytics, fieldData, alerts,
                    analysisInFlight, nextAnalysis, publishedBy, okIds,
                    address, suggestions, showSuggestions, isSearching,
                    searchTimeout, timers, nextTimer, geoInFlight,
                    suggestionsBy, lastKey, burst, burstIssued, requested,
                    lastRes, pureIn, pureOut, marker, mapCenter,
                    publishedData, lastSug, selectMark, popup, mapLoaded,
                    lastBody, mounted, effectId, autoVars, attachVars >>

\* the map's load event: the crop layer is added, handleMapClick is
\* registered and, with an Address parameter, the auto-navigate lookup
\* (limit=1) is issued after setAddress and setIsSearching(true)
MapLoad ==
    /\ map
    /\ ~mapLoaded
    /\ mapLoaded' = TRUE
    /\ IF urlAddress # None
       THEN /\ address' = urlAddress[1]
            /\ isSearching' = TRUE
            /\ autoInFlight' = autoInFlight \cup { [id |-> autoIssued + 1] }
            /\ autoIssued' = autoIssued + 1
       ELSE UNCHANGED << address, isSearching, autoInFlight, autoIssued >>
    /\ lastOp' = "MapLoad"
    /\ UNCHANGED << build, loading, showAnalytics, fieldData, alerts,
                    analysisInFlight, nextAnalysis, publishedBy, okIds,
                    suggestions, showSuggestions, searchTimeout, timers,
                    nextTimer, geoInFlight, suggestionsBy, lastKey, burst,
                    burstIssued, requested, lastRes, pureIn, pureOut, marker,
                    mapCenter, publishedData, lastSug, selectMark, popup, map,
                    lastBody, lifeVars, urlAddress, lastAuto, attachVars >>

\* a miss also removes the open popup
clickMissed_RemovesPopup(click) ==
    /\ click.features = << >>
    /\ popup' = None
    /\ popupsOnMap' = removeOld(popupsOnMap, popup)
    /\ lastOp' = "clickMissed"
    /\ UNCHANGED << build, loading, showAnalytics, fieldData, alerts,
                    analysisInFlight, nextAnalysis, publishedBy, okIds,
                    address, suggestions, showSuggestions, isSearching,
                    searchTimeout, timers, nextTimer, geoInFlight,
                    suggestionsBy, lastKey, burst, burstIssued, requested,
                    lastRes, pureIn, pureOut, marker, mapCenter,
                    publishedData, lastSug, selectMark, map, mapLoaded, lastBody,
                    lifeVars, autoVars, markersOnMap >>

\* handleMapClick on a point with no feature of the crop layer: the early
\* return (App.jsx registers the handler for the layer, so it is not even
\* called)
clickMissed(click) ==
    /\ click.features = << >>
    /\ lastOp' = "clickMissed"
    /\ UNCHANGED << build, loading, showAnalytics, fieldData, alerts,
                    analysisInFlight, nextAnalysis, publishedBy, okIds,
                    address, suggestions, showSuggestions, isSearching,
                    searchTimeout, timers, nextTimer, geoInFlight,
                    suggestionsBy, lastKey, burst, burstIssued, requested,
                    lastRes, pureIn, pureOut, marker, mapCenter,
                    publishedData, lastSug, selectMark, popup, map, mapLoaded, lastBody,
                    lifeVars, autoVars, attachVars >>

\* the click also raises the loading marker
clickOnFeature_SetsLoading(click) ==
    /\ click.features # << >>
    /\ LET props == click.features[1].properties
       IN  popup' = Some([lat |-> click.lat, lon |-> click.lon,
                          cropName |-> cropNameOf(props.CROP_TYPE),
                          props |-> props,
                          acres |-> acresText(props.CSBACRES)])
    /\ popupsOnMap' = removeOld(popupsOnMap, popup) + 1
    /\ loading' = TRUE
    /\ lastOp' = "handleMapClick"
    /\ UNCHANGED << build, showAnalytics, fieldData, alerts,
                    analysisInFlight, nextAnalysis, publishedBy, okIds,
                    address, suggestions, showSuggestions, isSearching,
                    searchTimeout, timers, nextTimer, geoInFlight,
                    suggestionsBy, lastKey, burst, burstIssued, requested,
                    lastRes, pureIn, pureOut, marker, mapCenter,
                    publishedData, lastSug, selectMark, map, mapLoaded, lastBody,
                    lifeVars, autoVars, markersOnMap >>

\* handleMapClick on a point with a feature: the old popup is removed and a
\* popup is added that prints the acreage and whose button closes over
\* lat, lon, cropName and props
clickOnFeature(click) ==
    /\ click.features # << >>
    /\ LET props == click.features[1].properties
       IN  popup' = Some([lat |-> click.lat, lon |-> click.lon,
                          cropName |-> cropNameOf(props.CROP_TYPE),
                          props |-> props,
                          acres |-> acresText(props.CSBACRES)])
    /\ popupsOnMap' = removeOld(popupsOnMap, popup) + 1
    /\ lastOp' = "handleMapClick"
    /\ UNCHANGED << build, loading, showAnalytics, fieldData, alerts,
                    analysisInFlight, nextAnalysis, publishedBy, okIds,
                    address, suggestions, showSuggestions, isSearching,
                    searchTimeout, timers, nextTimer, geoInFlight,
                    suggestionsBy, lastKey, burst, burstIssued, requested,
                    lastRes, pureIn, pureOut, marker, mapCenter,
                    publishedData, lastSug, selectMark, map, mapLoaded, lastBody,
                    lifeVars, autoVars, markersOnMap >>

\* the map's click event
handleMapClick(click) ==
    /\ map
    /\ mapLoaded
    /\ IF click.features = << >> THEN clickMissed(click)
       ELSE clickOnFeature(click)

-----------------------------------------------------------------------------
(* Field analysis *)

\* the popup's "Run Field Analysis" button: fetchAnalysisFromAzure up to
\* its await fetch(...)
fetchAnalysisFromAzure ==
    /\ popup # None
    /\ popupsOnMap > 0
    /\ nextAnalysis <= MaxAnalyses
    /\ loading' = TRUE
    /\ showAnalytics' = TRUE
    /\ analysisInFlight' = analysisInFlight \cup
          { [id |-> nextAnalysis, sel |-> popup[1], before |-> fieldData] }
    /\ nextAnalysis' = nextAnalysis + 1
    /\ requested' = Append(requested, popup[1])
    /\ lastOp' = "fetchAnalysisFromAzure"
    /\ UNCHANGED << build, map, popup, fieldData, alerts, publishedBy, okIds,
                    address, suggestions, showSuggestions, isSearching,
                    searchTimeout, timers, nextTimer, geoInFlight,
                    suggestionsBy, lastKey, burst, burstIssued, lastRes, pureIn, pureOut,
                    mapLoaded, marker, mapCenter, publishedData, lastSug,
                    selectMark, lastBody,
                    lifeVars, autoVars, attachVars >>

\* a successful response: the rest of the try block, then finally
analysisResolved(r, data) ==
    /\ r \in analysisInFlight
    /\ fieldData' = Some(IF build = "App" THEN resultOf_App(r.sel, data)
                         ELSE resultOf(r.sel, data))
    /\ loading' = FALSE
    /\ analysisInFlight' = analysisInFlight \ {r}
    /\ publishedBy' = r.id
    /\ okIds' = okIds \cup {r.id}
    /\ publishedData' = Some(data)
    /\ lastOp' = "analysisResolved"
    /\ UNCHANGED << build, map, popup, showAnalytics, alerts, nextAnalysis,
                    address, suggestions, showSuggestions, isSearching,
                    searchTimeout, timers, nextTimer, geoInFlight,
                    suggestionsBy, lastKey, burst, burstIssued, requested, lastRes, pureIn, pureOut,
                    mapLoaded, marker, mapCenter, lastSug, selectMark,
                    lifeVars, autoVars, attachVars >>

\* the catch block also resets the result
analysisFailed_ResetsData(r, why) ==
    /\ r \in analysisInFlight
    /\ alerts' = alerts + 1
    /\ loading' = FALSE
    /\ fieldData' = None
    /\ analysisInFlight' = analysisInFlight \ {r}
    /\ lastOp' = "analysisFailed"
    /\ UNCHANGED << build, map, popup, showAnalytics, nextAnalysis,
                    publishedBy, okIds, address, suggestions, showSuggestions,
                    isSearching, searchTimeout, timers, nextTimer, geoInFlight,
                    suggestionsBy, lastKey, burst, burstIssued, requested,
                    lastRes, pureIn, pureOut,
                    mapLoaded, marker, mapCenter, publishedData, lastSug,
                    selectMark,
                    lifeVars, autoVars, attachVars >>

\* a failed request: the catch block (console.error, alert), then finally
analysisFailed(r, why) ==
    /\ r \in analysisInFlight
    /\ alerts' = alerts + 1
    /\ loading' = FALSE
    /\ analysisInFlight' = analysisInFlight \ {r}
    /\ lastOp' = "analysisFailed"
    /\ UNCHANGED << build, map, popup, showAnalytics, fieldData, nextAnalysis,
                    publishedBy, okIds, address, suggestions, showSuggestions,
                    isSearching, searchTimeout, timers, nextTimer, geoInFlight,
                    suggestionsBy, lastKey, burst, burstIssued, requested, lastRes, pureIn, pureOut,
                    mapLoaded, marker, mapCenter, publishedData, lastSug,
                    selectMark,
                    lifeVars, autoVars, attachVars >>

\* a body without soil makes the derivation throw a TypeError
resultThrows_SoilRequired(data) == data.soil = None

\* whether a statement between response.json() and setFieldData throws for
\* the body: none does, whichever of soil, history and recommendations is
\* absent (data.history || {}, data.soil || {...} and data.soil?.sand,
\* data.recommendations || [], the guards on a missing soil in the helpers)
resultThrows(data) == FALSE

\* what an analysis request can produce: one of the failures, or a parsed
\* body
AnalysisResults ==
    { [kind |-> why, body |-> AnalysisData(None, None, None)] :
         why \in AnalysisFailures }
    \cup { [kind |-> "ok", body |-> data] : data \in AnalysisBodies }

\* the response of an analysis request arrives: the rest of
\* fetchAnalysisFromAzure
analysisResponse(r, res) ==
    IF res.kind # "ok"
    THEN /\ lastBody' = None
         /\ analysisFailed(r, res.kind)
    ELSE /\ lastBody' = Some(res.body)
         /\ IF resultThrows(res.body) THEN analysisFailed(r, "throw")
            ELSE analysisResolved(r, res.body)

\* the drawer's close button
closeDrawer ==
    /\ mounted
    /\ showAnalytics
    /\ showAnalytics' = FALSE
    /\ lastOp' = "closeDrawer"
    /\ UNCHANGED << build, map, popup, loading, fieldData, alerts,
                    analysisInFlight, nextAnalysis, publishedBy, okIds,
                    address, suggestions, showSuggestions, isSearching,
                    searchTimeout, timers, nextTimer, geoInFlight,
                    suggestionsBy, lastKey, burst, burstIssued, requested, lastRes, pureIn, pureOut,
                    mapLoaded, marker, mapCenter, publishedData, lastSug,
                    selectMark, lastBody,
                    lifeVars, autoVars, attachVars >>

-----------------------------------------------------------------------------
(* Address search *)

\* clearTimeout left out: the pending timer survives the next keystroke
clearTimeout_Omitted(id) == timers

\* clearTimeout(searchTimeout.current): a no-op for null and for a timer
\* that has fired
clearTimeout(id) == { t \in timers : t.id # id }

\* handleAddressChange(val), the synchronous part
handleAddressChange(val) ==
    /\ mounted
    /\ address' = val
    /\ IF Len(val) < MIN_QUERY
       THEN /\ showSuggestions' = FALSE
            /\ lastKey' = "short"
            /\ burst' = << >>
            /\ burstIssued' = << >>
            /\ UNCHANGED << isSearching, searchTimeout, timers, nextTimer >>
       ELSE /\ nextTimer <= MaxKeys
            /\ timers' = clearTimeout(searchTimeout)
                            \cup { [id |-> nextTimer, val |-> val] }
            /\ isSearching' = TRUE
            /\ searchTimeout' = nextTimer
            /\ nextTimer' = nextTimer + 1
            /\ lastKey' = "long"
            /\ burst' = IF timers = {} THEN << val >> ELSE Append(burst, val)
            /\ burstIssued' = IF timers = {} THEN << >> ELSE burstIssued
            /\ UNCHANGED showSuggestions
    /\ lastOp' = "handleAddressChange"
    /\ UNCHANGED << build, map, popup, loading, showAnalytics, fieldData,
                    alerts, analysisInFlight, nextAnalysis, publishedBy, okIds,
                    suggestions, geoInFlight, suggestionsBy, requested, lastRes, pureIn, pureOut,
                    mapLoaded, marker, mapCenter, publishedData, lastSug,
                    selectMark, lastBody,
                    lifeVars, autoVars, attachVars >>

\* the timer fires: the callback runs up to its await fetch(...)
timerFires(t) ==
    /\ t \in timers
    /\ timers' = timers \ {t}
    /\ geoInFlight' = geoInFlight \cup {t}
    /\ burstIssued' = IF burst = << >> THEN << >> ELSE Append(burstIssued, t.val)
    /\ lastOp' = "timerFires"
    /\ UNCHANGED << build, map, popup, loading, showAnalytics, fieldData,
                    alerts, analysisInFlight, nextAnalysis, publishedBy, okIds,
                    address, suggestions, showSuggestions, isSearching,
                    searchTimeout, nextTimer, suggestionsBy, lastKey, burst,
                    requested, lastRes, pureIn, pureOut,
                    mapLoaded, marker, mapCenter, publishedData, lastSug,
                    selectMark, lastBody,
                    lifeVars, autoVars, attachVars >>

\* a catch block that leaves the suggestions as they are
geoFailed_KeepsList(g) ==
    /\ g \in geoInFlight
    /\ geoInFlight' = geoInFlight \ {g}
    /\ isSearching' = FALSE
    /\ suggestionsBy' = g.id
    /\ lastOp' = "geoResponse"
    /\ UNCHANGED << build, map, popup, loading, showAnalytics, fieldData,
                    alerts, analysisInFlight, nextAnalysis, publishedBy, okIds,
                    address, suggestions, showSuggestions, searchTimeout,
                    timers, nextTimer, lastKey, burst, burstIssued, requested,
                    pureIn, pureOut,
                    mapLoaded, marker, mapCenter, publishedData, lastSug,
                    selectMark, lastBody,
                    lifeVars, autoVars, attachVars >>

\* the lookup fails in the try block: catch sets the suggestions to [],
\* finally clears isSearching
geoFailed(g) ==
    /\ g \in geoInFlight
    /\ geoInFlight' = geoInFlight \ {g}
    /\ suggestions' = << >>
    /\ isSearching' = FALSE
    /\ suggestionsBy' = g.id
    /\ lastOp' = "geoResponse"
    /\ UNCHANGED << build, map, popup, loading, showAnalytics, fieldData,
                    alerts, analysisInFlight, nextAnalysis, publishedBy, okIds,
                    address, showSuggestions, searchTimeout, timers, nextTimer,
                    lastKey, burst, burstIssued, requested, pureIn, pureOut,
                    mapLoaded, marker, mapCenter, publishedData, lastSug,
                    selectMark, lastBody,
                    lifeVars, autoVars, attachVars >>

\* the try block without its finally: isSearching stays as it is
geoRanked_KeepsSearching(g, ranked) ==
    /\ g \in geoInFlight
    /\ geoInFlight' = geoInFlight \ {g}
    /\ suggestions' = ranked
    /\ showSuggestions' = (Len(ranked) > 0)
    /\ suggestionsBy' = g.id
    /\ lastOp' = "geoResponse"
    /\ UNCHANGED << build, map, popup, loading, showAnalytics, fieldData,
                    alerts, analysisInFlight, nextAnalysis, publishedBy, okIds,
                    address, isSearching, searchTimeout, timers, nextTimer, lastKey, burst,
                    burstIssued, requested, pureIn, pureOut,
                    mapLoaded, marker, mapCenter, publishedData, lastSug,
                    selectMark, lastBody,
                    lifeVars, autoVars, attachVars >>

\* the lookup's body parsed and ranked: setSuggestions, setShowSuggestions,
\* then finally
geoRanked(g, ranked) ==
    /\ g \in geoInFlight
    /\ geoInFlight' = geoInFlight \ {g}
    /\ suggestions' = ranked
    /\ showSuggestions' = (Len(ranked) > 0)
    /\ isSearching' = FALSE
    /\ suggestionsBy' = g.id
    /\ lastOp' = "geoResponse"
    /\ UNCHANGED << build, map, popup, loading, showAnalytics, fieldData,
                    alerts, analysisInFlight, nextAnalysis, publishedBy, okIds,
                    address, searchTimeout, timers, nextTimer, lastKey, burst,
                    burstIssued, requested, pureIn, pureOut,
                    mapLoaded, marker, mapCenter, publishedData, lastSug,
                    selectMark, lastBody,
                    lifeVars, autoVars, attachVars >>

\* the response of a lookup arrives: the rest of the timer callback
geoResponse(g, res) ==
    /\ lastRes' = Some(res)
    /\ IF res.kind \in {"network", "badjson"} THEN geoFailed(g)
       ELSE IF res.kind = "object" THEN geoRanked(g, << >>)
       ELSE IF mapThrows(res.data) THEN geoFailed(g)
       ELSE geoRanked(g, rankedOf(res.data, g.val))

\* if (marker.current) marker.current.remove(); marker.current = new
\* Marker().setLngLat([lon, lat]).addTo(map.current): the one marker
placeMarker(old, lat, lon) == Some([lat |-> lat, lon |-> lon])

\* what the auto-navigate lookup can produce: a rejected fetch, a body that
\* does not parse, a parsed body that is no array, a parsed array
AutoResults ==
    { [kind |-> "network", data |-> << >>],
      [kind |-> "badjson", data |-> << >>],
      [kind |-> "object",  data |-> << >>],
      [kind |-> "array",   data |-> << >>],
      [kind |-> "array",   data |-> << OakRd >>] }

\* the response of the auto-navigate lookup arrives: the .then / .catch /
\* .finally chain.  With a first match and a map, the marker is placed on
\* it and the map is centred on it; a failure is only logged
autoResponse(a, res) ==
    /\ a \in autoInFlight
    /\ autoInFlight' = autoInFlight \ {a}
    /\ IF res.kind = "array" /\ Len(res.data) > 0 /\ map
       THEN LET lat == parseFloat(res.data[1].lat)[1]
                lon == parseFloat(res.data[1].lon)[1]
            IN  /\ marker' = placeMarker(marker, lat, lon)
                /\ markersOnMap' = removeOld(markersOnMap, marker) + 1
                /\ mapCenter' = Some([lat |-> lat, lon |-> lon])
       ELSE UNCHANGED << marker, markersOnMap, mapCenter >>
    /\ isSearching' = FALSE
    /\ lastAuto' = Some(res)
    /\ lastOp' = "autoResponse"
    /\ UNCHANGED << build, map, mapLoaded, popup, loading, showAnalytics,
                    fieldData, alerts, analysisInFlight, nextAnalysis,
                    publishedBy, okIds, publishedData, address, suggestions,
                    showSuggestions, searchTimeout, timers, nextTimer,
                    geoInFlight, suggestionsBy, lastKey, burst, burstIssued,
                    requested, lastRes, pureIn, pureOut, lastBody, lastSug,
                    selectMark, lifeVars, urlAddress, autoIssued,
                    popupsOnMap >>

\* selectSuggestion(sug), the click on an item of the dropdown (the
\* coordinates of the items below are numerals, so parseFloat gives a
\* number)
selectSuggestion(sug) ==
    /\ mounted
    /\ showSuggestions
    /\ \E i \in 1..Len(suggestions) : suggestions[i] = sug
    /\ address' = beforeComma(sug.display_name[1])
    /\ showSuggestions' = FALSE
    /\ IF ~map THEN UNCHANGED << marker, mapCenter, markersOnMap >>
       ELSE LET lat == parseFloat(sug.lat)[1]
                lon == parseFloat(sug.lon)[1]
            IN  /\ marker' = placeMarker(marker, lat, lon)
                /\ markersOnMap' = removeOld(markersOnMap, marker) + 1
                /\ mapCenter' = Some([lat |-> lat, lon |-> lon])
    /\ lastSug' = Some(sug)
    /\ selectMark' = nextTimer
    /\ lastOp' = "selectSuggestion"
    /\ UNCHANGED << build, map, mapLoaded, popup, loading, showAnalytics,
                    fieldData, alerts, analysisInFlight, nextAnalysis,
                    publishedBy, okIds, publishedData, suggestions,
                    isSearching, searchTimeout, timers, nextTimer,
                    geoInFlight, suggestionsBy, lastKey, burst, burstIssued,
                    requested, lastRes, pureIn, pureOut, lastBody,
                    lifeVars, autoVars, popupsOnMap >>

\* the search box gets the focus:
\* onFocus={() => suggestions?.length > 0 && setShowSuggestions(true)}
focusSearch ==
    /\ mounted
    /\ showSuggestions' = IF Len(suggestions) > 0 THEN TRUE ELSE showSuggestions
    /\ lastOp' = "focusSearch"
    /\ UNCHANGED << build, map, mapLoaded, popup, loading, showAnalytics,
                    fieldData, alerts, analysisInFlight, nextAnalysis,
                    publishedBy, okIds, publishedData, address, suggestions,
                    isSearching, searchTimeout, timers, nextTimer,
                    geoInFlight, suggestionsBy, lastKey, burst, burstIssued,
                    requested, lastRes, marker, mapCenter, lastSug,
                    selectMark, pureIn, pureOut, lastBody,
                    lifeVars, autoVars, attachVars >>

\* the clear icon of the search box, rendered when address && !isSearching
clearAddress ==
    /\ mounted
    /\ address # << >>
    /\ ~isSearching
    /\ address' = << >>
    /\ showSuggestions' = FALSE
    /\ lastOp' = "clearAddress"
    /\ UNCHANGED << build, map, mapLoaded, popup, loading, showAnalytics,
                    fieldData, alerts, analysisInFlight, nextAnalysis,
                    publishedBy, okIds, publishedData, suggestions,
                    isSearching, searchTimeout, timers, nextTimer,
                    geoInFlight, suggestionsBy, lastKey, burst, burstIssued,
                    requested, lastRes, marker, mapCenter, lastSug,
                    selectMark, pureIn, pureOut, lastBody,
                    lifeVars, autoVars, attachVars >>

-----------------------------------------------------------------------------
(* The interactive specification *)

\* clicks, analysis requests and their responses
NextAnalysis ==
    \/ \E e \in awaiting : initMap(e)
    \/ MapLoad
    \/ \E click \in Clicks : handleMapClick(click)
    \/ fetchAnalysisFromAzure
    \/ \E r \in analysisInFlight, res \in AnalysisResults : analysisResponse(r, res)
    \/ closeDrawer

\* keystrokes, timers, lookups and their responses
NextSearch ==
    \/ \E e \in awaiting : initMap(e)
    \/ \E val \in KeyValues : handleAddressChange(val)
    \/ \E t \in timers : timerFires(t)
    \/ \E g \in geoInFlight, res \in GeoResults : geoResponse(g, res)
    \/ \E i \in 1..Len(suggestions) : selectSuggestion(suggestions[i])
    \/ focusSearch
    \/ clearAddress

\* the one keystroke and the lookup result that fill the dropdown in
\* NextMap
MapKeyValues == { <<"M","a","i","n">> }
MapGeoResults == { [kind |-> "array", data |-> << OakRd, MainSt >>] }

\* the mount effect, the map, and everything that attaches a marker or a
\* popup to it
NextMap ==
    \/ mount
    \/ unmount
    \/ \E e \in awaiting : initMap(e)
    \/ \E e \in awaiting : resourcesFailed(e)
    \/ MapLoad
    \/ \E a \in autoInFlight, res \in AutoResults : autoResponse(a, res)
    \/ \E click \in Clicks : handleMapClick(click)
    \/ \E val \in MapKeyValues : nextTimer = 1 /\ handleAddressChange(val)
    \/ \E t \in timers : timerFires(t)
    \/ \E g \in geoInFlight, res \in MapGeoResults : geoResponse(g, res)
    \/ \E i \in 1..Len(suggestions) : selectSuggestion(suggestions[i])
    \/ focusSearch

\* the inputs of NextBusy: a click on a field, a failed and a successful
\* analysis, a short and a long keystroke, a failed and a successful lookup
BusyKeyValues == { <<"m">>, <<"M","a","i","n">> }
BusyClicks == { c \in Clicks : c.features # << >> /\ c.features[1].properties.CROP_TYPE = 1 }
BusyAnalysisResults ==
    { [kind |-> "network", body |-> AnalysisData(None, None, None)],
      [kind |-> "ok", body |-> AnalysisData(None, None, None)] }
BusyGeoResults ==
    { [kind |-> "network", data |-> << >>],
      [kind |-> "array",   data |-> << MainSt >>] }

\* everything that sets or clears loading or isSearching
NextBusy ==
    \/ \E e \in awaiting : initMap(e)
    \/ MapLoad
    \/ \E click \in BusyClicks : handleMapClick(click)
    \/ fetchAnalysisFromAzure
    \/ \E r \in analysisInFlight, res \in BusyAnalysisResults : analysisResponse(r, res)
    \/ \E val \in BusyKeyValues : handleAddressChange(val)
    \/ \E t \in timers : timerFires(t)
    \/ \E g \in geoInFlight, res \in BusyGeoResults : geoResponse(g, res)

Next == NextAnalysis \/ NextSearch \/ NextMap \/ NextBusy

\* The search and the analysis share no state, so each is checked with
\* the other idle and the page opened without the Address parameter;
\* SpecMap follows the mount effect and the map; Spec is all together.
SpecAnalysis == InitPlain /\ [][NextAnalysis]_vars
SpecSearch   == InitPlain /\ [][NextSearch]_vars
SpecMap      == Init /\ [][NextMap]_vars
SpecBusy     == InitPlain /\ [][NextBusy]_vars
Spec         == Init /\ [][Next]_vars

\* setTimeout runs a callback that is not cleared
FairSearch == SpecSearch /\ WF_vars(\E t \in timers : timerFires(t))

\* setTimeout runs its callback, and every request that was issued gets a
\* response or an error
FairBusy ==
    /\ SpecBusy
    /\ WF_vars(\E t \in timers : timerFires(t))
    /\ WF_vars(\E g \in geoInFlight, res \in BusyGeoResults : geoResponse(g, res))
    /\ WF_vars(\E r \in analysisInFlight, res \in BusyAnalysisResults :
                  analysisResponse(r, res))

-----------------------------------------------------------------------------
(* What the page shows *)

\* the suggestions dropdown is rendered
suggestionsVisible == showSuggestions /\ Len(suggestions) > 0

\* the drawer renders the result (not the loading state)
resultShown == ~loading /\ fieldData # None

Last(s) == s[Len(s)]

locationOf(sel) == [lat |-> sel.lat, lon |-> sel.lon]

-----------------------------------------------------------------------------
(* C1..C6: supersession, debounce and failure handling *)

\* C1: once every analysis response has arrived and the request for the
\* latest selection succeeded, the published fieldData is the result for
\* that latest selection (a late response for an older selection is
\* discarded).
C1_LatestSelectionWins ==
    (Len(requested) >= 2 /\ analysisInFlight = {} /\ Len(requested) \in okIds)
        => /\ fieldData # None
           /\ fieldData[1].location = locationOf(Last(requested))
           /\ fieldData[1].cropName = Last(requested).cropName

\* C2: once every timer has fired and every lookup has answered, the
\* suggestions shown are those set by the response of the most recently
\* scheduled lookup (a late response of an earlier lookup is dropped).
C2_LatestLookupWins ==
    (searchTimeout > 0 /\ timers = {} /\ geoInFlight = {} /\ suggestionsVisible)
        => suggestionsBy = searchTimeout

\* C3 (state part): at most one timer is pending; while the timer of a
\* burst of keystrokes of 3 or more characters is pending no request has
\* been issued for the burst and the timer carries the last value typed;
\* once it has fired exactly one request was issued, for the last value.
C3_OneRequestPerBurst ==
    /\ Cardinality(timers) <= 1
    /\ burst # << >> =>
          IF timers # {}
          THEN /\ burstIssued = << >>
               /\ timers = { [id |-> searchTimeout, val |-> Last(burst)] }
          ELSE burstIssued = << Last(burst) >>

\* C3: a burst of keystrokes of 3 or more characters, each before the
\* previous timer fired, issues exactly one geocoding request, eventually,
\* carrying the last value of the burst.
C3_Debounce ==
    /\ []C3_OneRequestPerBurst
    /\ (timers # {}) ~> (timers = {})

C3_Witness ==
    /\ lastOp = "timerFires"
    /\ Len(burst) >= 2
    /\ burst[1] # Last(burst)
    /\ timers = {}
    /\ burstIssued = << Last(burst) >>

\* C4: after a keystroke shorter than 3 characters (and until the next
\* keystroke) no debounce timer is pending.
C4_ShortKeystrokeCancels ==
    lastKey = "short" => timers = {}

isGeoFailure(res) ==
    \/ res.kind \in {"network", "badjson", "object"}
    \/ res.kind = "array" /\ \E i \in 1..Len(res.data) : res.data[i].display_name = None

\* C6: when a geocoding lookup fails (network error, unparsable body,
\* non-array payload, array element without display name) the suggestion
\* list becomes empty, no suggestion is visible, no failure notice is
\* raised and the searching indicator is cleared.
C6_SearchFailureIsSilent ==
    [][ (lastOp' = "geoResponse" /\ isGeoFailure(lastRes'[1])) =>
          /\ suggestions' = << >>
          /\ ~suggestionsVisible'
          /\ ~isSearching'
          /\ alerts' = alerts ]_vars

\* a lookup failed after an earlier one had filled the list
C6_Witness ==
    /\ lastOp = "geoResponse"
    /\ lastRes = Some([kind |-> "array", data |-> << MainSt, NoName >>])
    /\ showSuggestions
    /\ suggestions = << >>
    /\ ~isSearching

-----------------------------------------------------------------------------
(* The ranking on its own: every provider result list of up to GEO_LIMIT
   items against every query *)

MainRd == Item(Some(<<"m","a","i","n"," ","r">>), <<"4">>, <<"4">>)
Ma     == Item(Some(<<"M","a">>), <<"5">>, <<"5">>)

RankItems == { MainSt, OakRd, MainRd, Ma }

RankQueries == { <<"m","a","i">>, <<"M","A","I","N">> }

RECURSIVE SeqsUpTo(_, _)
\* the sequences over S of length at most n
SeqsUpTo(S, n) ==
    IF n = 0 THEN { << >> }
    ELSE LET shorter == SeqsUpTo(S, n - 1)
         IN  shorter \cup { Append(q, x) : q \in { t \in shorter : Len(t) = n - 1 }, x \in S }

InitRank ==
    /\ InitUI
    /\ pureIn \in { Some([data |-> d, val |-> v]) :
                       d \in SeqsUpTo(RankItems, GEO_LIMIT), v \in RankQueries }
    /\ pureOut = None

\* const ranked = data.map(...).sort(...).slice(0, 5)
applyRank ==
    /\ pureOut = None
    /\ pureOut' = Some(rankedOf(pureIn[1].data, pureIn[1].val))
    /\ UNCHANGED << uiVars, pureIn >>

SpecRank == InitRank /\ [][applyRank]_vars

\* C7: as the claim states the result: the candidates whose display name
\* starts with the query, letter case ignored, in provider order, then the
\* others in provider order, each with its score, cut to the first 5
isPrefixMatch(name, q) ==
    /\ Len(q) <= Len(name)
    /\ \A i \in 1..Len(q) : Lower(name[i]) = Lower(q[i])

C7_Expected(data, q) ==
    LET scored == [i \in 1..Len(data) |->
                     [display_name |-> data[i].display_name, lat |-> data[i].lat,
                      lon |-> data[i].lon,
                      rankScore |-> IF isPrefixMatch(data[i].display_name[1], q)
                                    THEN 100 ELSE 0]]
        hit(x)  == x.rankScore = 100
        miss(x) == x.rankScore = 0
        all     == SelectSeq(scored, hit) \o SelectSeq(scored, miss)
    IN  SubSeq(all, 1, IF Len(all) < 5 THEN Len(all) ELSE 5)

\* C7: the published suggestions are the first 5 of the stable descending
\* sort by rankScore, where rankScore is 100 for a display name that starts
\* with the query (case-insensitively) and 0 otherwise.
C7_Ranking ==
    pureOut # None =>
        /\ pureOut[1] = C7_Expected(pureIn[1].data, pureIn[1].val)
        /\ Len(pureOut[1]) <= 5

\* a list of more than 5 results whose matching candidates stand after
\* non-matching ones and differ from the query in letter case
C7_Witness ==
    /\ pureOut # None
    /\ Len(pureIn[1].data) > 5
    /\ pureIn[1].val = <<"M","A","I","N">>
    /\ pureIn[1].data[1] = OakRd
    /\ pureIn[1].data[6] = MainRd
    /\ pureIn[1].data[5] = MainSt
    /\ SubSeq(pureOut[1], 1, 2) =
          << [display_name |-> MainSt.display_name, lat |-> MainSt.lat,
              lon |-> MainSt.lon, rankScore |-> 100],
             [display_name |-> MainRd.display_name, lat |-> MainRd.lat,
              lon |-> MainRd.lon, rankScore |-> 100] >>
    /\ Len(pureOut[1]) = 5

-----------------------------------------------------------------------------
(* The derived metrics on their own: every soil sample over the values
   around the thresholds, absent fields and the absent sample included *)

PhValues       == { None, Some(0), Some(552), Some(600), Some(650), Some(750), Some(762) }
SocValues      == { None, Some(0), Some(1400), Some(1500) }
NitrogenValues == { None, Some(0), Some(180), Some(200) }
SandValues     == { None, Some(0), Some(3000), Some(4500), Some(4600) }
ClayValues     == { None, Some(0), Some(2000), Some(4000), Some(4500) }

SoilSamples ==
    { Soil(ph, soc, n, sand, clay, None) :
        ph \in PhValues, soc \in SocValues, n \in NitrogenValues,
        sand \in SandValues, clay \in ClayValues }

InitSoil ==
    /\ InitUI
    /\ pureIn \in { Some(None) } \cup { Some(Some(soil)) : soil \in SoilSamples }
    /\ pureOut = None

\* the three derivations on the soil as the build hands it to them
applySoil ==
    /\ pureOut = None
    /\ LET soil == pureIn[1]
           sand == IF soil = None THEN None ELSE soil[1].sand
           clay == IF soil = None THEN None ELSE soil[1].clay
       IN  pureOut' = Some(
             IF build = "App"
             THEN [texture |-> getTextureClass_App(sand, clay),
                   healthData |-> getHealthScore_App(soil),
                   fertilizerPlan |-> getFertilizerPlan_App(soil)]
             ELSE [texture |-> getTextureClass(sand, clay),
                   healthData |-> getHealthScore(soil),
                   fertilizerPlan |-> getFertilizerPlan(soil)])
    /\ UNCHANGED << uiVars, pureIn >>

SpecSoil == InitSoil /\ [][applySoil]_vars

-----------------------------------------------------------------------------
(* C8..C10: the derived metrics *)

\* C8: no state shows a health score of 0 for a field whose response had
\* no soil: the assessment of an absent soil sample is absent.
C8_NoZeroScoreWithoutSoil ==
    (resultShown /\ fieldData[1].soil = None)
        => ~(fieldData[1].healthData # None /\ fieldData[1].healthData[1].score = 0)

textsOf(list) == [i \in 1..Len(list) |-> list[i].message.text]

\* C9: for a sample with ph, soc and nitrogen present (0 included) the
\* score is max(0, 100 - D), D summing 15 for ph < 6.0 or ph > 7.5, 20 for
\* soc < 15 and 15 for nitrogen < 2.0; the score is in 0..100; the issues
\* are those of the applied deductions in the order pH, organic matter,
\* nitrogen; the strengths are "pH is in optimal range" iff
\* 6.0 <= ph <= 7.5 and "Good organic matter" iff soc >= 15.
C9_HealthScore ==
    (pureOut # None /\ pureIn[1] # None
       /\ pureIn[1][1].ph # None /\ pureIn[1][1].soc # None
       /\ pureIn[1][1].nitrogen # None)
    => LET ph  == pureIn[1][1].ph[1]
           soc == pureIn[1][1].soc[1]
           n   == pureIn[1][1].nitrogen[1]
           D   == (IF ph < 600 \/ ph > 750 THEN 15 ELSE 0)
                  + (IF soc < 1500 THEN 20 ELSE 0)
                  + (IF n < 200 THEN 15 ELSE 0)
           h   == pureOut[1].healthData
       IN  /\ h # None
           /\ h[1].score = Max(0, 100 - D)
           /\ h[1].score \in 0..100
           /\ textsOf(h[1].issues) =
                 (IF ph < 600 THEN << "Acidic Soil (pH " >>
                  ELSE IF ph > 750 THEN << "Alkaline Soil (pH " >> ELSE << >>)
                 \o (IF soc < 1500 THEN << "Low organic matter" >> ELSE << >>)
                 \o (IF n < 200 THEN << "Low Nitrogen" >> ELSE << >>)
           /\ textsOf(h[1].strengths) =
                 (IF ph >= 600 /\ ph <= 750 THEN << "pH is in optimal range" >> ELSE << >>)
                 \o (IF soc >= 1500 THEN << "Good organic matter" >> ELSE << >>)

\* C10: the texture is Unknown exactly when sand and clay are both absent
\* or zero; otherwise Clay when clay >= 40 whatever the sand is; otherwise
\* Sandy Loam when sand > 45; otherwise Loam.
C10_Texture ==
    (pureOut # None /\ pureIn[1] # None)
    => LET sand == pureIn[1][1].sand
           clay == pureIn[1][1].clay
           s    == IF sand = None THEN 0 ELSE sand[1]
           c    == IF clay = None THEN 0 ELSE clay[1]
       IN  pureOut[1].texture =
              IF s = 0 /\ c = 0 THEN "Unknown"
              ELSE IF c >= 4000 THEN "Clay"
              ELSE IF s > 4500 THEN "Sandy Loam"
              ELSE "Loam"

-----------------------------------------------------------------------------
(* C11, C12: the fertilizer plan *)

\* C11: when nitrogen < 2.0 the plan contains a nitrogen recommendation
\* with priority HIGH, amount "80-100 lbs/ac", fertilizer "Urea (46-0-0)",
\* target "3.5", timing "Split application at planting" and, as current
\* value, the observed nitrogen printed with 1 decimal place.
C11_NitrogenEntry ==
    (pureOut # None /\ pureIn[1] # None /\ pureIn[1][1].nitrogen # None
       /\ pureIn[1][1].nitrogen[1] < 200)
    => LET plan == pureOut[1].fertilizerPlan
       IN  \E i \in 1..Len(plan) :
              /\ plan[i].priority = "HIGH"
              /\ plan[i].amount = "80-100 lbs/ac"
              /\ plan[i].fertilizer = "Urea (46-0-0)"
              /\ plan[i].target = "3.5"
              /\ plan[i].timing = "Split application at planting"
              /\ plan[i].current = toFixed(pureIn[1][1].nitrogen[1], 1)

\* C12: the plan holds a nitrogen entry iff nitrogen < 2.0 and a pH entry
\* ("Ag Limestone") iff pH is present, positive and < 6.0, and nothing
\* else; the nitrogen entry comes first; at most 2 entries, each of
\* priority HIGH; an absent soil sample gives the empty plan.
C12_PlanShape ==
    pureOut # None
    => LET soil   == pureIn[1]
           plan   == pureOut[1].fertilizerPlan
           wantN  == soil # None /\ soil[1].nitrogen # None
                     /\ soil[1].nitrogen[1] < 200
           wantPh == soil # None /\ soil[1].ph # None
                     /\ soil[1].ph[1] > 0 /\ soil[1].ph[1] < 600
       IN  /\ Len(plan) = (IF wantN THEN 1 ELSE 0) + (IF wantPh THEN 1 ELSE 0)
           /\ wantN => plan[1].fertilizer = "Urea (46-0-0)"
           /\ wantPh => plan[Len(plan)].fertilizer = "Ag Limestone"
           /\ Len(plan) <= 2
           /\ \A i \in 1..Len(plan) : plan[i].priority = "HIGH"
           /\ soil = None => plan = << >>

-----------------------------------------------------------------------------
(* C13..C16: the normalisation of the response *)

\* C13: when the response had no soil object, the published soil is the
\* default sample {ph 6.5, soc 20, nitrogen 2.5, clay 25, sand 35} with its
\* silt completed (40), and texture, health and plan are those of that
\* sample: Loam, score 100 with both strengths and no issue, empty plan.
C13_DefaultSoil ==
    (fieldData # None /\ publishedData[1].soil = None)
    => /\ fieldData[1].soil =
             Some([ph |-> Some(650), soc |-> Some(2000), nitrogen |-> Some(250),
                   sand |-> Some(3500), clay |-> Some(2500), silt |-> Some(4000)])
       /\ fieldData[1].texture = "Loam"
       /\ fieldData[1].healthData # None
       /\ fieldData[1].healthData[1].score = 100
       /\ fieldData[1].healthData[1].issues = << >>
       /\ textsOf(fieldData[1].healthData[1].strengths) =
             << "pH is in optimal range", "Good organic matter" >>
       /\ fieldData[1].fertilizerPlan = << >>

\* C14: when the soil used for a result (the backend's, or the default
\* sample) has no silt, the published silt is max(0, 100 - sand - clay)
\* with an absent sand or clay counted as 0; a silt the backend supplied
\* is published as it is; the published silt is never negative.
C14_SiltCompletion ==
    (fieldData # None /\ fieldData[1].soil # None)
    => LET back == publishedData[1].soil
           sand == IF back = None THEN 3500
                   ELSE IF back[1].sand = None THEN 0 ELSE back[1].sand[1]
           clay == IF back = None THEN 2500
                   ELSE IF back[1].clay = None THEN 0 ELSE back[1].clay[1]
           silt == IF back = None THEN None ELSE back[1].silt
           pub  == fieldData[1].soil
       IN  /\ pub[1].silt # None
           /\ pub[1].silt[1] >= 0
           /\ silt = None => pub[1].silt[1] = Max(0, 10000 - sand - clay)
           /\ silt # None => pub[1].silt = silt

\* C15: every published result has a history entry for 2022 built from
\* the selection that triggered the request (crop name, crop code,
\* acreage), whatever the backend sent for 2022; the entries of the other
\* years are exactly the backend's.
C15_CurrentYearEntry ==
    fieldData # None
    => LET sel  == requested[publishedBy]
           h    == fieldData[1].history
           back == IF publishedData[1].history = None THEN EmptyHistory
                   ELSE publishedData[1].history[1]
       IN  /\ 2022 \in DOMAIN h
           /\ h[2022] = [crop |-> sel.cropName, code |-> sel.props.CROP_TYPE,
                         acres |-> sel.props.CSBACRES]
           /\ (DOMAIN h) \ {2022} = (DOMAIN back) \ {2022}
           /\ \A y \in (DOMAIN h) \ {2022} : h[y] = back[y]

\* the backend sent entries for 2021 and 2022, and the selection of the
\* published result is no longer the one of the open popup
C15_Witness ==
    /\ fieldData # None
    /\ publishedData[1].history # None
    /\ publishedData[1].history[1][2022].crop = "Rice"
    /\ fieldData[1].history[2022].crop = "Corn"
    /\ fieldData[1].history[2022].acres = Some(<<"1","2",".","5">>)
    /\ fieldData[1].history[2021].crop = "Wheat"
    /\ popup[1].cropName = "Unknown"

\* C16: every successful response, whichever of soil, history and
\* recommendations it lacks, publishes a result and raises no failure
\* notice; an absent history yields a history of the injected 2022 entry
\* alone, absent recommendations yield the empty list.
C16_PartialDataIsNoError ==
    [][ (lastOp' \in {"analysisResolved", "analysisFailed"} /\ lastBody' # None)
        => /\ lastOp' = "analysisResolved"
           /\ alerts' = alerts
           /\ ~loading'
           /\ fieldData' # None
           /\ fieldData'[1].county = requested[publishedBy'].props.CNTY
           /\ lastBody'[1].history = None
                 => DOMAIN fieldData'[1].history = {2022}
           /\ lastBody'[1].recommendations = None
                 => fieldData'[1].recommendations = << >> ]_vars

\* a response with none of the three was published
C16_Witness ==
    /\ lastOp = "analysisResolved"
    /\ lastBody = Some(AnalysisData(None, None, None))
    /\ fieldData # None
    /\ DOMAIN fieldData[1].history = {2022}
    /\ fieldData[1].recommendations = << >>
    /\ alerts = 0

-----------------------------------------------------------------------------
(* C17, C18: the selection of a suggestion *)

\* the coordinate of the named suggestions, as numbers
C17_CoordOf(sug) ==
    IF sug.display_name = MainSt.display_name
    THEN [lat |-> 4050, lon |-> 0 - 9800]
    ELSE [lat |-> 4100, lon |-> 0 - 9725]

\* a is the part of name before its first comma
C17_IsPrimaryLabel(a, name) ==
    /\ Len(a) <= Len(name)
    /\ SubSeq(name, 1, Len(a)) = a
    /\ \A i \in 1..Len(a) : a[i] # ","
    /\ Len(a) < Len(name) => name[Len(a) + 1] = ","

C18_DiscardedOnSelection ==
    (selectMark > 0 /\ suggestionsVisible) => suggestionsBy >= selectMark

-----------------------------------------------------------------------------
(* C19, C20: the click on the map *)

\* C19: a click at a point with no feature of the crop layer is a no-op:
\* no popup is opened or removed, no request is issued, and fieldData,
\* loading and the drawer are as they were.
C19_MissIsNoOp ==
    [][ lastOp' = "clickMissed"
        => /\ popup' = popup
           /\ analysisInFlight' = analysisInFlight
           /\ nextAnalysis' = nextAnalysis
           /\ requested' = requested
           /\ geoInFlight' = geoInFlight
           /\ timers' = timers
           /\ fieldData' = fieldData
           /\ loading' = loading
           /\ showAnalytics' = showAnalytics
           /\ alerts' = alerts ]_vars

\* a miss while a popup is open, a result is published and a request is
\* in flight
C19_Witness ==
    /\ lastOp = "clickMissed"
    /\ popup # None
    /\ fieldData # None
    /\ loading
    /\ showAnalytics
    /\ analysisInFlight # {}

-----------------------------------------------------------------------------
(* The acreage text on its own: every acreage property over a small
   alphabet, the absent one included *)

AcreChars == { "1", "5", ".", "a" }

InitAcres ==
    /\ InitUI
    /\ pureIn \in { Some(None) }
                   \cup { Some(Some(str)) : str \in SeqsUpTo(AcreChars, MaxAcreLen) }
    /\ pureOut = None

\* const acres = props.CSBACRES ? parseFloat(props.CSBACRES).toFixed(2) : "N/A"
applyAcres ==
    /\ pureOut = None
    /\ pureOut' = Some(acresText(pureIn[1]))
    /\ UNCHANGED << uiVars, pureIn >>

SpecAcres == InitAcres /\ [][applyAcres]_vars

\* str is a decimal numeral: digits with at most one point
C20_IsNumeral(str) ==
    /\ \A i \in 1..Len(str) : str[i] = "." \/ DigitVal(str[i]) >= 0
    /\ Cardinality({ i \in 1..Len(str) : str[i] = "." }) <= 1
    /\ \E i \in 1..Len(str) : str[i] # "."

\* the numeral str with exactly 2 decimal places
C20_TwoDecimals(str) ==
    LET points == { i \in 1..Len(str) : str[i] = "." }
        k      == IF points = {} THEN Len(str) + 1 ELSE CHOOSE i \in points : TRUE
        fr     == SubSeq(str, k + 1, Len(str))
    IN  [int  |-> digitsValue(SubSeq(str, 1, k - 1)),
         frac |-> << IF Len(fr) >= 1 THEN DigitVal(fr[1]) ELSE 0,
                     IF Len(fr) >= 2 THEN DigitVal(fr[2]) ELSE 0 >>]

\* C20: the acreage the popup of a clicked field prints is the acreage
\* property as a number with exactly 2 decimal places, and the text "N/A"
\* when the property is absent or not numeric.
C20_AcreageText ==
    pureOut # None
    => pureOut[1] =
          IF pureIn[1] = None \/ ~C20_IsNumeral(pureIn[1][1])
          THEN Shown("N/A", None)
          ELSE Shown("", Some(C20_TwoDecimals(pureIn[1][1])))

-----------------------------------------------------------------------------
(* C21, C22: the auto-navigate lookup, the marker and the popup *)

\* the lookup result res has a first match
C21_HasMatch(res) == res.kind = "array" /\ Len(res.data) > 0

\* C21: with an Address parameter exactly one auto-navigate lookup is
\* issued in the whole behaviour, unmount and remount included; a response
\* with a match centres the map (if there is one) on the first match and
\* places the one marker there, and a failure or an empty response places
\* no marker and shows no failure.
C21_AutoNavigate ==
    [][ /\ autoIssued' <= 1
        /\ lastOp' = "autoResponse"
           => IF C21_HasMatch(lastAuto'[1]) /\ map
              THEN /\ marker' = Some(C17_CoordOf(lastAuto'[1].data[1]))
                   /\ mapCenter' = marker'
                   /\ markersOnMap' = 1
              ELSE /\ marker' = marker
                   /\ markersOnMap' = markersOnMap
                   /\ mapCenter' = mapCenter
                   /\ alerts' = alerts ]_vars

\* C22: at most one marker and at most one popup are attached to the map in
\* every state, whatever the order of clicks, selections and the
\* auto-navigate response.
C22_OneMarkerOnePopup ==
    /\ markersOnMap <= 1
    /\ popupsOnMap <= 1

\* a suggestion is selected on the map on which the auto-navigate response
\* has placed its marker, with a popup open: the marker is the selected one
C22_Witness ==
    /\ lastOp = "selectSuggestion"
    /\ effectId = 1
    /\ map
    /\ lastAuto # None
    /\ C21_HasMatch(lastAuto[1])
    /\ marker = Some(C17_CoordOf(lastSug[1]))
    /\ marker # Some(C17_CoordOf(lastAuto[1].data[1]))
    /\ markersOnMap = 1
    /\ popupsOnMap = 1

-----------------------------------------------------------------------------
(* C23, C24: the published result and the click *)

\* the soil and its sand and clay as the build reads them from fieldData
C23_Sand(fd) == IF fd.soil = None THEN None ELSE fd.soil[1].sand
C23_Clay(fd) == IF fd.soil = None THEN None ELSE fd.soil[1].clay

\* the derived fields of fd are those of fd.soil, its cropName and location
\* those of sel, and its soil the one of the body data
C23_Consistent(fd, sel, data) ==
    /\ fd.cropName = sel.cropName
    /\ fd.location = locationOf(sel)
    /\ IF build = "App"
       THEN /\ fd.soil = data.soil
            /\ fd.texture = getTextureClass_App(C23_Sand(fd), C23_Clay(fd))
            /\ fd.healthData = getHealthScore_App(fd.soil)
            /\ fd.fertilizerPlan = getFertilizerPlan_App(fd.soil)
       ELSE /\ fd.soil = Some(normalizedSoil(data))
            /\ fd.texture = getTextureClass(C23_Sand(fd), C23_Clay(fd))
            /\ fd.healthData = getHealthScore(fd.soil)
            /\ fd.fertilizerPlan = getFertilizerPlan(fd.soil)

\* C23: in every state with a published fieldData its texture, healthData
\* and fertilizerPlan are those of the soil in the same object, and its
\* cropName and location those of the selection whose request produced
\* that soil; fieldData changes only when a fetch completes and publishes
\* a whole new object.
C23_DerivedFieldsAgree ==
    /\ [](fieldData # None
            => C23_Consistent(fieldData[1], requested[publishedBy],
                              publishedData[1]))
    /\ [][ fieldData' # fieldData
             => /\ lastOp' = "analysisResolved"
                /\ publishedBy' # publishedBy
                /\ fieldData' # None ]_vars

\* the second request, for another field than the first, has published a
\* result with a soil of its own
C23_Witness ==
    /\ fieldData # None
    /\ publishedBy = 2
    /\ okIds = {1, 2}
    /\ requested[1].cropName # requested[2].cropName
    /\ fieldData[1].cropName = requested[2].cropName
    /\ publishedData[1].soil = Some(HeavySoil)
    /\ fieldData[1].texture = "Clay"

\* C24: a click on a feature issues no request and changes neither
\* fieldData nor loading, it only replaces the popup by the one of the
\* click; an analysis request is issued only by the button of the popup,
\* for the coordinates, crop name and properties the popup was created
\* with.
C24_ClickDoesNoIO ==
    [][ /\ lastOp' = "handleMapClick"
           => /\ \E click \in Clicks :
                    /\ click.features # << >>
                    /\ popup' # None
                    /\ popup'[1].lat = click.lat
                    /\ popup'[1].lon = click.lon
                    /\ popup'[1].props = click.features[1].properties
                    /\ popup'[1].cropName = cropNameOf(popup'[1].props.CROP_TYPE)
              /\ analysisInFlight' = analysisInFlight
              /\ nextAnalysis' = nextAnalysis
              /\ requested' = requested
              /\ geoInFlight' = geoInFlight
              /\ timers' = timers
              /\ fieldData' = fieldData
              /\ loading' = loading
        /\ ~(analysisInFlight' \subseteq analysisInFlight)
           => /\ lastOp' = "fetchAnalysisFromAzure"
              /\ popup # None
              /\ \E r \in analysisInFlight' :
                    /\ analysisInFlight' = analysisInFlight \cup {r}
                    /\ r.sel = popup[1] ]_vars

\* a click on another field while the request for the first one is in
\* flight and a result is published
C24_Witness ==
    /\ lastOp = "handleMapClick"
    /\ popup # None
    /\ analysisInFlight # {}
    /\ fieldData # None
    /\ Last(requested) # popup[1]

-----------------------------------------------------------------------------
(* C25..C27: the loading marker and the searching indicator *)

\* C25: whenever an analysis request is in flight, loading is true: the
\* end of an earlier request does not clear the marker of a later one.
C25_LoadingWhileInFlight ==
    analysisInFlight # {} => loading

\* C26: whenever a debounce timer is pending or a geocoding lookup is in
\* flight, isSearching is true: the end of an earlier lookup does not clear
\* the indicator of a later keystroke.
C26_SearchingWhileOutstanding ==
    (timers # {} \/ geoInFlight # {} \/ autoInFlight # {}) => isSearching

\* C27: if every timer fires and every request that was issued gets a
\* response or an error, then after the last click and keystroke a state is
\* reached from which loading and isSearching are false.
C27_BusyEnds ==
    <>[](~loading /\ ~isSearching)

\* after a failed and a successful analysis and a typed lookup nothing is
\* outstanding and both are false
C27_Witness ==
    /\ ~loading
    /\ ~isSearching
    /\ alerts > 0
    /\ okIds # {}
    /\ suggestionsBy > 0
    /\ analysisInFlight = {}
    /\ geoInFlight = {}
    /\ timers = {}

-----------------------------------------------------------------------------
(* C28: the map instance across mount and unmount *)

\* C28: at most one map instance exists in every state, and map.current
\* refers to it; after the cleanup map.current is null and
\* mapInitialized.current is false; a map is created only by the initMap
\* of the effect that is mounted, never by one that was cleaned up while
\* the resources were loading.
C28_SingleMap ==
    /\ [](/\ liveMaps <= 1
          /\ map <=> (liveMaps = 1)
          /\ ~mounted => (~map /\ ~mapInitialized /\ liveMaps = 0))
    /\ [][ liveMaps' > liveMaps
             => /\ mounted
                /\ effectId \in awaiting
                /\ effectId \notin awaiting' ]_vars

\* the component was unmounted while the resources were loading and is
\* mounted again: the first initMap has resumed and created no map, the
\* second one still awaits the resources
C28_Witness ==
    /\ lastOp = "initMap"
    /\ mounted
    /\ effectId = 2
    /\ awaiting = {2}
    /\ ~map
    /\ liveMaps = 0

-----------------------------------------------------------------------------
(* C29, C30: the health assessment against the plan *)

\* C29: the score of every assessment is one of 100, 85, 80, 70, 65, 50
\* (never 75, never clamped to 0), and the label is "Poor" exactly when the
\* three deductions (pH, organic matter, nitrogen) all apply.
C29_ScoreValues ==
    (pureOut # None /\ pureOut[1].healthData # None)
    => LET h == pureOut[1].healthData[1]
       IN  /\ h.score \in { 100, 85, 80, 70, 65, 50 }
           /\ (healthLabel(h.score) = "Poor") <=> (Len(h.issues) = 3)

\* C30: for a sample with a non-negative pH the plan has a nitrogen entry
\* iff the issues contain "Low Nitrogen" and a pH entry iff they contain
\* "Acidic Soil"; "Alkaline Soil" and "Low organic matter" give no entry.
C30_HealthAndPlanAgree ==
    (pureOut # None /\ pureIn[1] # None /\ pureOut[1].healthData # None)
    => LET issues == textsOf(pureOut[1].healthData[1].issues)
           plan   == pureOut[1].fertilizerPlan
           has(t) == \E i \in 1..Len(issues) : issues[i] = t
           entry(f) == \E i \in 1..Len(plan) : plan[i].fertilizer = f
       IN  /\ entry("Urea (46-0-0)") <=> has("Low Nitrogen")
           /\ entry("Ag Limestone") <=> has("Acidic Soil (pH ")
           /\ \A i \in 1..Len(plan) :
                 plan[i].fertilizer \in { "Urea (46-0-0)", "Ag Limestone" }

\* an acid sample low in organic matter and nitrogen: three issues and both
\* entries
C30_Witness ==
    /\ pureOut # None /\ pureIn[1] # None
    /\ pureIn[1][1].ph = Some(552)
    /\ pureIn[1][1].nitrogen = Some(180)
    /\ pureIn[1][1].soc = Some(1400)
    /\ Len(pureOut[1].healthData[1].issues) = 3
    /\ Len(pureOut[1].fertilizerPlan) = 2

=============================================================================
